---- MODULE Spec2Model ----
(***************************************************************************)
(* Model of Backend/api.py: solve_scheduling builds a CP-SAT model from a  *)
(* request (days, slots_per_day, margin, exams, rooms), submits it to the  *)
(* solver and maps the solver's valuation back to a response.              *)
(*                                                                         *)
(* Python lists are functions over 0..n-1 (the source's indices); Python   *)
(* dicts are records, a missing key being a missing field (see Get).       *)
(* Requests carry days, slots_per_day and margin (both at least 1, resp.   *)
(* at least 0), integer fields, and a name for every exam and room; the    *)
(* other keys of an exam or a room may be missing.                         *)
(*                                                                         *)
(* The solver is the external CP-SAT engine, modelled by the contract of   *)
(* CpSolver.Solve: it returns a status; OPTIMAL and FEASIBLE come with a   *)
(* valuation that satisfies every constraint of the model, for OPTIMAL one *)
(* of minimal objective; INFEASIBLE is returned only when no valuation     *)
(* satisfies the model, MODEL_INVALID when a variable has an empty domain, *)
(* UNKNOWN when the search stopped without an answer.                      *)
(***************************************************************************)
EXTENDS Integers, FiniteSets, Sequences, TLC

\* Bounds of the explored requests.
MaxDays == 2
MaxSlots == 4
MaxMargin == 1
MaxExams == 2
MaxRooms == 2
MaxDuration == 2
MaxStudents == 1
MaxHorizon == 6

VARIABLES
    data,       \* the request: days, slots_per_day, margin, exams, rooms
    pc,         \* position in solve_scheduling: "request", "built", "solved", "done"
    model,      \* the CpModel built by lines 42..133
    status,     \* the solver status of line 137
    solution,   \* the solver's valuation of the integer variables
    response    \* the dict returned by solve_scheduling

vars == <<data, pc, model, status, solution, response>>

None == "None"
NoModel == [built |-> FALSE]
NoSolution == [found |-> FALSE]
NoResponse == [status |-> "none"]

ExamNames == <<"Mathematiques", "Physique", "Chimie", "Algo">>
ExamFilieres == <<"GL", "IA", "GL", "IA">>
RoomNames == <<"Salle A", "Salle B", "Salle C", "Salle D">>
Promotions == {None, "L1", "L2"}

\* dict.get(key, default)
Get(d, key, default) == IF key \in DOMAIN d THEN d[key] ELSE default

Range(n) == 0 .. (n - 1)

SetMin(S) == CHOOSE x \in S : \A y \in S : x <= y
SetMax(S) == CHOOSE x \in S : \A y \in S : x >= y

-----------------------------------------------------------------------------
\* Requests.

ExamInputs(e) ==
    { [name |-> ExamNames[e + 1], filiere |-> ExamFilieres[e + 1],
       duration |-> d, students |-> s, promotion |-> p] :
         d \in 0 .. MaxDuration, s \in 0 .. MaxStudents, p \in Promotions }
    \cup { [name |-> ExamNames[e + 1]] }

RoomInputs(r) ==
    { [name |-> RoomNames[r + 1], capacity |-> c] : c \in 1 .. MaxStudents }
    \cup { [name |-> RoomNames[r + 1]] }

\* The lists of n exams and of n rooms.
ExamLists(n) ==
    { f \in [Range(n) -> UNION { ExamInputs(k) : k \in Range(n) }] :
        \A k \in Range(n) : f[k] \in ExamInputs(k) }

RoomLists(n) ==
    { f \in [Range(n) -> UNION { RoomInputs(k) : k \in Range(n) }] :
        \A k \in Range(n) : f[k] \in RoomInputs(k) }

\* The (days, slots_per_day) of the explored requests: at most MaxHorizon slots.
Calendars ==
    { c \in (1 .. MaxDays) \X (1 .. MaxSlots) : c[1] * c[2] <= MaxHorizon }

Requests ==
    { [days |-> c[1], slots_per_day |-> c[2], margin |-> m, exams |-> ex, rooms |-> ro] :
        c \in Calendars, m \in 0 .. MaxMargin,
        ex \in UNION { ExamLists(n) : n \in 0 .. MaxExams },
        ro \in UNION { RoomLists(n) : n \in 0 .. MaxRooms } }

-----------------------------------------------------------------------------
\* Model construction (lines 42..133).

Duration(exam) == Get(exam, "duration", 1)
Students(exam) == Get(exam, "students", 0)
\* Mutant of Capacity: a room without capacity counts as holding one student.
CapacityDefaultOne(room) == Get(room, "capacity", 1)
Capacity(room) == Get(room, "capacity", 0)
Promotion(exam) == Get(exam, "promotion", None)

\* line 63: NewIntVar(0, D * H - duration)
StartDomain(D, H, duration) == 0 .. (D * H - duration)

\* Mutant of PossibleRooms: the capacity filter is dropped.
PossibleRoomsAny(exam, rooms) == DOMAIN rooms

\* lines 73-74: the rooms whose capacity suffices
PossibleRooms(exam, rooms) ==
    { r \in DOMAIN rooms : Capacity(rooms[r]) >= Students(exam) }

\* lines 78-79, 102-103: for i in range(n): for j in range(i + 1, n)
Pairs(n) == { p \in Range(n) \X Range(n) : p[1] < p[2] }

\* Mutant of RoomGaps: the margin is left out of the ordering constraints.
RoomGapsNoMargin(exam_i, exam_j, margin) ==
    [ij |-> Duration(exam_i), ji |-> Duration(exam_j)]

\* lines 93-98: the constants of the two ordering constraints of a pair
RoomGaps(exam_i, exam_j, margin) ==
    [ij |-> Duration(exam_i) + margin, ji |-> Duration(exam_j) + margin]

\* Mutant of PromoConflict: the test of line 106 with == in place of !=.
PromoConflictSame(exam_i, exam_j) ==
    /\ Promotion(exam_i) # None
    /\ Promotion(exam_j) # None
    /\ Promotion(exam_i) = Promotion(exam_j)

\* line 106: the pairs that get a promotion constraint
PromoConflict(exam_i, exam_j) ==
    /\ Promotion(exam_i) # None
    /\ Promotion(exam_j) # None
    /\ Promotion(exam_i) # Promotion(exam_j)

\* lines 111-116
PromoGaps(exam_i, exam_j) ==
    [ij |-> Duration(exam_i), ji |-> Duration(exam_j)]

BuildCpModel(d) ==
    LET D == d.days
        H == d.slots_per_day
        exams == d.exams
        n == Cardinality(DOMAIN exams)
    IN  [ built |-> TRUE,
          num_exams |-> n,
          H |-> H,
          start_dom |-> [e \in Range(n) |-> StartDomain(D, H, Duration(exams[e]))],
          day_dom |-> 0 .. (D - 1),
          slot_dom |-> 0 .. (H - 1),
          room_dom |-> [e \in Range(n) |-> PossibleRooms(exams[e], d.rooms)],
          duration |-> [e \in Range(n) |-> Duration(exams[e])],
          room_pairs |-> [p \in Pairs(n) |->
                            RoomGaps(exams[p[1]], exams[p[2]], d.margin)],
          promo_pairs |-> [p \in { q \in Pairs(n) :
                                     PromoConflict(exams[q[1]], exams[q[2]]) } |->
                            PromoGaps(exams[p[1]], exams[p[2]])],
          horizon |-> D * H ]

BuildModel ==
    /\ pc = "request"
    /\ model' = BuildCpModel(data)
    /\ pc' = "built"
    /\ UNCHANGED <<data, status, solution, response>>

-----------------------------------------------------------------------------
\* The constraints of the model, evaluated on a valuation.

\* The integer variables are functions of start and room: day and slot by the
\* division and modulo equalities (lines 67-68), end by line 124, start_min,
\* end_max and period by lines 129-132.
Valuation(m, start, room) ==
    LET E == Range(m.num_exams)
        end == [e \in E |-> start[e] + m.duration[e]]
        lo == SetMin({ start[e] : e \in E })
        hi == SetMax({ end[e] : e \in E })
    IN  [ found |-> TRUE,
          start |-> start,
          room |-> room,
          day |-> [e \in E |-> start[e] \div m.H],
          slot |-> [e \in E |-> start[e] % m.H],
          end |-> end,
          start_min |-> lo,
          end_max |-> hi,
          period |-> hi - lo ]

\* lines 63-66, 75, 123, 127-128, 131: every variable lies in its domain
InDomains(m, v) ==
    /\ \A e \in Range(m.num_exams) :
          /\ v.start[e] \in m.start_dom[e]
          /\ v.day[e] \in m.day_dom
          /\ v.slot[e] \in m.slot_dom
          /\ v.room[e] \in m.room_dom[e]
          /\ v.end[e] \in 0 .. m.horizon
    /\ v.start_min \in 0 .. m.horizon
    /\ v.end_max \in 0 .. m.horizon
    /\ v.period \in 0 .. m.horizon

\* Mutant of FitsDay: the duration is left out of line 70.
FitsDayStartOnly(slot, duration, H) == slot <= H

\* line 70: model.Add(exam_slot[e] + duration <= H)
FitsDay(slot, duration, H) == slot + duration <= H

\* Mutant of NoOverlapEncoding: the ordering is enforced by same_room alone.
NoOverlapEncodingRoomOnly(v, i, j, gaps) ==
    \E same_room \in BOOLEAN :
       /\ same_room => v.room[i] = v.room[j]
       /\ ~same_room => v.room[i] # v.room[j]
       /\ \E i_before_j, j_before_i \in BOOLEAN :
             /\ i_before_j => v.slot[i] + gaps.ij <= v.slot[j]
             /\ j_before_i => v.slot[j] + gaps.ji <= v.slot[i]
             /\ same_room => (i_before_j \/ j_before_i)

\* lines 80-99: the reified encoding of one pair; its Booleans occur in no
\* other constraint.
NoOverlapEncoding(v, i, j, gaps) ==
    \E same_room \in BOOLEAN :
       /\ same_room => v.room[i] = v.room[j]
       /\ ~same_room => v.room[i] # v.room[j]
       /\ \E same_day \in BOOLEAN :
             /\ same_day => v.day[i] = v.day[j]
             /\ ~same_day => v.day[i] # v.day[j]
             /\ \E both \in BOOLEAN :
                   /\ both => (same_room /\ same_day)
                   /\ ~both => (~same_room \/ ~same_day)
                   /\ \E i_before_j, j_before_i \in BOOLEAN :
                         /\ i_before_j => v.slot[i] + gaps.ij <= v.slot[j]
                         /\ j_before_i => v.slot[j] + gaps.ji <= v.slot[i]
                         /\ both => (i_before_j \/ j_before_i)

\* lines 107-117
PromoEncoding(v, i, j, gaps) ==
    \E same_day_promo \in BOOLEAN :
       /\ same_day_promo => v.day[i] = v.day[j]
       /\ ~same_day_promo => v.day[i] # v.day[j]
       /\ \E i_before_j, j_before_i \in BOOLEAN :
             /\ i_before_j => v.slot[i] + gaps.ij <= v.slot[j]
             /\ j_before_i => v.slot[j] + gaps.ji <= v.slot[i]
             /\ same_day_promo => (i_before_j \/ j_before_i)

Satisfies(m, v) ==
    /\ InDomains(m, v)
    /\ \A e \in Range(m.num_exams) : FitsDay(v.slot[e], m.duration[e], m.H)
    /\ \A p \in DOMAIN m.room_pairs :
          NoOverlapEncoding(v, p[1], p[2], m.room_pairs[p])
    /\ \A p \in DOMAIN m.promo_pairs :
          PromoEncoding(v, p[1], p[2], m.promo_pairs[p])

\* The assignments of start and room within their domains.
Assignments(m) ==
    LET E == Range(m.num_exams)
    IN  { a \in [start : [E -> UNION { m.start_dom[e] : e \in E }],
                 room : [E -> UNION { m.room_dom[e] : e \in E }]] :
            \A e \in E : /\ a.start[e] \in m.start_dom[e]
                         /\ a.room[e] \in m.room_dom[e] }

\* Whether some values of the Booleans make the assignment satisfy every
\* constraint. AddMinEquality and AddMaxEquality over an empty list (lines
\* 129-130, no exam) are constraints no valuation satisfies.
Accepts(m, a) ==
    /\ m.num_exams > 0
    /\ Satisfies(m, Valuation(m, a.start, a.room))

Solutions(m) ==
    { Valuation(m, a.start, a.room) : a \in { b \in Assignments(m) : Accepts(m, b) } }

\* A variable with an empty domain makes the model invalid.
ModelInvalid(m) ==
    \E e \in Range(m.num_exams) : m.start_dom[e] = {} \/ m.room_dom[e] = {}

\* line 133: model.Minimize(period)
Objective(v) == v.period

\* Mutant of Optimal: the objective is ignored.
OptimalAny(S) == S

\* The valuations an OPTIMAL status can carry.
Optimal(S) == { v \in S : \A w \in S : Objective(v) <= Objective(w) }

-----------------------------------------------------------------------------
\* The solve step (lines 136-137) and the mapping of its outcome (138-154).

\* What solver.Solve(model) may return: the status and, with OPTIMAL and
\* FEASIBLE, the valuation solver.Value reads. A FEASIBLE valuation is any
\* solution; UNKNOWN may be returned whether or not a solution exists.
SolverOutcomes(m) ==
    IF ModelInvalid(m)
    THEN { [status |-> "MODEL_INVALID", solution |-> NoSolution] }
    ELSE LET S == Solutions(m)
         IN  { [status |-> "UNKNOWN", solution |-> NoSolution] }
             \cup (IF S = {}
                   THEN { [status |-> "INFEASIBLE", solution |-> NoSolution] }
                   ELSE { [status |-> "OPTIMAL", solution |-> v] : v \in Optimal(S) }
                        \cup { [status |-> "FEASIBLE", solution |-> v] : v \in S })

Solve ==
    /\ pc = "built"
    /\ \E o \in SolverOutcomes(model) :
          /\ status' = o.status
          /\ solution' = o.solution
    /\ pc' = "solved"
    /\ UNCHANGED <<data, model, response>>

\* line 140
Accepted(st) == st \in {"OPTIMAL", "FEASIBLE"}

\* lines 143-150
ResultEntry(exam, rooms, day, slot, room) ==
    [ name |-> Get(exam, "name", None),
      filiere |-> Get(exam, "filiere", None),
      promotion |-> Get(exam, "promotion", None),
      day |-> day,
      slot |-> slot,
      room |-> rooms[room].name ]

\* Mutant of Results: the loop of line 141 stops one exam early.
ResultsDropLast(d, v) ==
    [e \in Range(Cardinality(DOMAIN d.exams) - 1) |->
        ResultEntry(d.exams[e], d.rooms, v.day[e], v.slot[e], v.room[e])]

\* lines 141-151
Results(d, v) ==
    [e \in Range(Cardinality(DOMAIN d.exams)) |->
        ResultEntry(d.exams[e], d.rooms, v.day[e], v.slot[e], v.room[e])]

\* Mutant of TotalPeriod: end_max is read in place of period.
TotalPeriodEnd(v) == v.end_max

\* line 152: solver.Value(period)
TotalPeriod(v) == v.period

Respond ==
    /\ pc = "solved"
    /\ response' =
          IF Accepted(status)
          THEN [status |-> "success", results |-> Results(data, solution),
                total_period |-> TotalPeriod(solution)]
          ELSE [status |-> "failure", message |-> "Aucune solution trouvee"]
    /\ pc' = "done"
    /\ UNCHANGED <<data, model, status, solution>>

-----------------------------------------------------------------------------

Init ==
    /\ data \in Requests
    /\ pc = "request"
    /\ model = NoModel
    /\ status = "NOT_RUN"
    /\ solution = NoSolution
    /\ response = NoResponse

Next == BuildModel \/ Solve \/ Respond

Spec == Init /\ [][Next]_vars

-----------------------------------------------------------------------------
\* The scheduling rules, stated on the request and on a schedule (a start and
\* a room index per exam) without reference to the model.

Exams == data.exams
Rooms == data.rooms
NumExams == Cardinality(DOMAIN data.exams)
ExamIds == DOMAIN data.exams
Days == data.days
SlotsPerDay == data.slots_per_day
Margin == data.margin

DurationOf(e) == IF "duration" \in DOMAIN Exams[e] THEN Exams[e].duration ELSE 1
StudentsOf(e) == IF "students" \in DOMAIN Exams[e] THEN Exams[e].students ELSE 0
PromotionOf(e) == IF "promotion" \in DOMAIN Exams[e] THEN Exams[e].promotion ELSE None
CapacityOf(r) == IF "capacity" \in DOMAIN Rooms[r] THEN Rooms[r].capacity ELSE 0

DayOf(start) == start \div SlotsPerDay
SlotOf(start) == start % SlotsPerDay

Contained(a, e) ==
    /\ a.start[e] \in 0 .. (Days * SlotsPerDay - DurationOf(e))
    /\ DayOf(a.start[e]) \in 0 .. (Days - 1)
    /\ SlotOf(a.start[e]) \in 0 .. (SlotsPerDay - 1)
    /\ SlotOf(a.start[e]) + DurationOf(e) <= SlotsPerDay

Roomy(a, e) ==
    /\ a.room[e] \in DOMAIN Rooms
    /\ CapacityOf(a.room[e]) >= StudentsOf(e)

Ordered(a, i, j, gap) ==
    \/ SlotOf(a.start[i]) + DurationOf(i) + gap <= SlotOf(a.start[j])
    \/ SlotOf(a.start[j]) + DurationOf(j) + gap <= SlotOf(a.start[i])

RoomSeparated(a, i, j) ==
    (a.room[i] = a.room[j] /\ DayOf(a.start[i]) = DayOf(a.start[j]))
        => Ordered(a, i, j, Margin)

CohortsDiffer(i, j) ==
    PromotionOf(i) # None /\ PromotionOf(j) # None /\ PromotionOf(i) # PromotionOf(j)

CohortSeparated(a, i, j) ==
    (CohortsDiffer(i, j) /\ DayOf(a.start[i]) = DayOf(a.start[j]))
        => Ordered(a, i, j, 0)

TimeRules(a) ==
    /\ \A e \in ExamIds : Contained(a, e)
    /\ \A i, j \in ExamIds :
          i < j => RoomSeparated(a, i, j) /\ CohortSeparated(a, i, j)

Schedules ==
    [start : [ExamIds -> 0 .. (Days * SlotsPerDay)], room : [ExamIds -> DOMAIN Rooms]]

RuleSatisfying ==
    { a \in Schedules : TimeRules(a) /\ \A e \in ExamIds : Roomy(a, e) }

SpanOf(a) ==
    SetMax({ a.start[e] + DurationOf(e) : e \in ExamIds })
        - SetMin({ a.start[e] : e \in ExamIds })

\* The response read back as a schedule.
Success == pc = "done" /\ response.status = "success"
Failure == pc = "done" /\ response.status = "failure"
Entry(e) == response.results[e]
ReturnedStart(e) == Entry(e).day * SlotsPerDay + Entry(e).slot
SameRoomAndDay(i, j) == Entry(i).room = Entry(j).room /\ Entry(i).day = Entry(j).day
Interval(e) == Entry(e).slot .. (Entry(e).slot + DurationOf(e) - 1)

-----------------------------------------------------------------------------
\* C1: in every success result, two distinct exams with the same room and the
\* same day are ordered with the margin between them: slot(i) + duration(i) +
\* margin <= slot(j) or slot(j) + duration(j) + margin <= slot(i).
NonOverlap ==
    Success =>
        \A i, j \in ExamIds :
            (i # j /\ SameRoomAndDay(i, j)) =>
                \/ Entry(i).slot + DurationOf(i) + Margin <= Entry(j).slot
                \/ Entry(j).slot + DurationOf(j) + Margin <= Entry(i).slot

\* Two exams share a room and a day, the later one starting exactly one margin
\* after the earlier one ends.
NonOverlapWitness ==
    /\ Success
    /\ Margin = 1
    /\ \E i, j \in ExamIds :
          /\ i # j
          /\ SameRoomAndDay(i, j)
          /\ DurationOf(i) >= 1
          /\ DurationOf(j) >= 1
          /\ Entry(i).slot + DurationOf(i) + Margin = Entry(j).slot

\* C2: in every success result, two exams with different non-null promotions
\* on the same day have disjoint slot intervals, whatever their rooms.
CohortSeparation ==
    Success =>
        \A i, j \in ExamIds :
            (i # j /\ CohortsDiffer(i, j) /\ Entry(i).day = Entry(j).day) =>
                Interval(i) \cap Interval(j) = {}

\* Two exams of different promotions in different rooms on one day, adjacent
\* with no gap.
CohortSeparationWitness ==
    /\ Success
    /\ \E i, j \in ExamIds :
          /\ CohortsDiffer(i, j)
          /\ Entry(i).day = Entry(j).day
          /\ Entry(i).room # Entry(j).room
          /\ DurationOf(i) >= 1
          /\ DurationOf(j) >= 1
          /\ Entry(i).slot + DurationOf(i) = Entry(j).slot

\* C3: in every success result each exam has day in [0, days-1], slot in
\* [0, slots_per_day-1], slot + duration <= slots_per_day, and day and slot
\* are quotient and remainder of one start in [0, days*slots_per_day - duration].
Containment ==
    Success =>
        \A e \in ExamIds :
            /\ Entry(e).day \in 0 .. (Days - 1)
            /\ Entry(e).slot \in 0 .. (SlotsPerDay - 1)
            /\ Entry(e).slot + DurationOf(e) <= SlotsPerDay
            /\ \E start \in 0 .. (Days * SlotsPerDay - DurationOf(e)) :
                  /\ Entry(e).day = start \div SlotsPerDay
                  /\ Entry(e).slot = start % SlotsPerDay

\* An exam of two slots or more ends with the last slot of the first of two days.
ContainmentWitness ==
    /\ Success
    /\ Days = 2
    /\ \E e \in ExamIds :
          /\ DurationOf(e) >= 2
          /\ Entry(e).day = 0
          /\ Entry(e).slot + DurationOf(e) = SlotsPerDay

\* C4: in every success result the room named for an exam is a room of the
\* request whose capacity (0 when missing) is at least the exam's students
\* (0 when missing).
CapacityRespected ==
    Success =>
        \A e \in ExamIds :
            \E r \in DOMAIN Rooms :
                /\ Rooms[r].name = Entry(e).room
                /\ CapacityOf(r) >= StudentsOf(e)

\* An exam with students is placed while the request also has a room too
\* small for it.
CapacityWitness ==
    /\ Success
    /\ \E e \in ExamIds :
          /\ StudentsOf(e) >= 1
          /\ \E r \in DOMAIN Rooms : CapacityOf(r) < StudentsOf(e)

\* C5 as stated: whenever the result is a success, total_period is the smallest
\* span among the rule-satisfying schedules.
MinimalSpan ==
    Success =>
        LET spans == { SpanOf(a) : a \in RuleSatisfying }
        IN  /\ response.total_period \in spans
            /\ \A s \in spans : response.total_period <= s

\* C5 amended: when the solver status is OPTIMAL, total_period is the smallest
\* span among the rule-satisfying schedules.
MinimalSpanWhenOptimal ==
    (Success /\ status = "OPTIMAL") =>
        LET spans == { SpanOf(a) : a \in RuleSatisfying }
        IN  /\ response.total_period \in spans
            /\ \A s \in spans : response.total_period <= s

\* days=1, slots_per_day=4, margin=0, one room, two exams of duration 2
\* without promotion: an OPTIMAL success with total_period 4.
MinimalSpanWitness ==
    /\ Success
    /\ status = "OPTIMAL"
    /\ Days = 1 /\ SlotsPerDay = 4 /\ Margin = 0
    /\ Cardinality(DOMAIN Rooms) = 1
    /\ NumExams = 2
    /\ \A e \in ExamIds : DurationOf(e) = 2 /\ PromotionOf(e) = None
    /\ { Entry(e).slot : e \in ExamIds } = {0, 2}
    /\ response.total_period = 4

\* C6: in every success result total_period equals the latest end minus the
\* earliest start recomputed from the returned day and slot and the durations.
SpanConsistency ==
    Success =>
        response.total_period =
            SetMax({ ReturnedStart(e) + DurationOf(e) : e \in ExamIds })
                - SetMin({ ReturnedStart(e) : e \in ExamIds })

\* Two exams on different days, none starting at 0.
SpanConsistencyWitness ==
    /\ Success
    /\ \A e \in ExamIds : ReturnedStart(e) >= 1 /\ DurationOf(e) >= 1
    /\ \E i, j \in ExamIds : Entry(i).day < Entry(j).day
    /\ response.total_period >= 3

\* Some exam has more students than every room's capacity (or there is no room).
Unroomable == \E e \in ExamIds : \A r \in DOMAIN Rooms : StudentsOf(e) > CapacityOf(r)

\* C7: an exam with more students than every room's capacity (or no room at
\* all) makes the result a failure, never a success.
InfeasibilityDetection == (pc = "done" /\ Unroomable) => response.status = "failure"

\* A failure for a request with rooms, all too small for some exam, and
\* otherwise schedulable.
InfeasibilityWitness ==
    /\ Failure
    /\ Unroomable
    /\ DOMAIN Rooms # {}
    /\ status = "MODEL_INVALID"
    /\ \A e \in ExamIds : DurationOf(e) \in 1 .. SlotsPerDay

\* Some exam's duration is outside [1, slots_per_day].
BadDuration == \E e \in ExamIds : DurationOf(e) \notin 1 .. SlotsPerDay

\* C8: a request with a duration outside [1, slots_per_day] is rejected before
\* the solve step: the solver is never run on it and it never yields a success.
DurationValidation ==
    BadDuration => (status = "NOT_RUN" /\ pc # "solved" /\ response.status # "success")

\* C9: when the solver status is OPTIMAL or FEASIBLE the results hold one
\* entry per exam, in the order of the request, with its name, filiere and
\* promotion; for any other status the response is a failure without results
\* and without total_period.
OutputCompleteness ==
    pc = "done" =>
        IF status \in {"OPTIMAL", "FEASIBLE"}
        THEN /\ response.status = "success"
             /\ DOMAIN response.results = 0 .. (NumExams - 1)
             /\ \A k \in ExamIds :
                   /\ Entry(k).name = Get(Exams[k], "name", None)
                   /\ Entry(k).filiere = Get(Exams[k], "filiere", None)
                   /\ Entry(k).promotion = Get(Exams[k], "promotion", None)
        ELSE /\ response.status = "failure"
             /\ "results" \notin DOMAIN response
             /\ "total_period" \notin DOMAIN response

\* A FEASIBLE solve of two exams that differ in name, filiere and promotion.
OutputCompletenessWitness ==
    /\ Success
    /\ status = "FEASIBLE"
    /\ NumExams = 2
    /\ Entry(0).name # Entry(1).name
    /\ Entry(0).filiere # Entry(1).filiere
    /\ Entry(0).promotion # Entry(1).promotion
    /\ Entry(1).promotion # None

\* Whether Booleans exist that make the schedule satisfy the model built.
EncodingAccepts(a) == Accepts(model, a)

\* C10 as stated: for every request, the schedules within the domains that
\* the model accepts are the rule-satisfying ones, and a failure is returned
\* only when no rule-satisfying schedule exists.
ExactEncoding ==
    /\ pc = "built" =>
          \A a \in Assignments(model) : EncodingAccepts(a) <=> TimeRules(a)
    /\ Failure => RuleSatisfying = {}

\* C10 amended: for a request with at least one exam, the model accepts
\* exactly the rule-satisfying schedules, and a failure on the solver status
\* INFEASIBLE or MODEL_INVALID is returned only when none exists.
ExactEncodingOfExams ==
    /\ (pc = "built" /\ NumExams >= 1) =>
          \A a \in Assignments(model) : EncodingAccepts(a) <=> TimeRules(a)
    /\ (Failure /\ NumExams >= 1 /\ status \in {"INFEASIBLE", "MODEL_INVALID"})
          => RuleSatisfying = {}

\* A success in which two exams overlap in slots on one day, in different
\* rooms.
ExactEncodingWitness ==
    /\ Success
    /\ \E i, j \in ExamIds :
          /\ i # j
          /\ Entry(i).day = Entry(j).day
          /\ Entry(i).room # Entry(j).room
          /\ Interval(i) \cap Interval(j) # {}
====
